---------------------------- MODULE Spec2Model ----------------------------
(***************************************************************************)
(* A model of src/src/AM_Creep_Analysis/multi_plot.py: the column          *)
(* resolver, the table loader, the aggregator (compute_average), the       *)
(* series plotter (plot_data) and main.                                    *)
(*                                                                         *)
(* Python strings are modelled as sequences of one-character strings, so   *)
(* that int(), strip(), split(","), replace(), startswith() and the        *)
(* substring test are computed character by character.                     *)
(***************************************************************************)
EXTENDS Integers, Sequences, FiniteSets, TLC

(***************************************************************************)
(* Python values and string primitives                                     *)
(***************************************************************************)
\* None where a string is expected: no string, since every element of a
\* string is one character
None == <<"None">>

Range(s) == {s[i] : i \in 1..Len(s)}

Digits == {"0", "1", "2", "3", "4", "5", "6", "7", "8", "9"}

DigitVal(c) ==
  CASE c = "0" -> 0 [] c = "1" -> 1 [] c = "2" -> 2 [] c = "3" -> 3
    [] c = "4" -> 4 [] c = "5" -> 5 [] c = "6" -> 6 [] c = "7" -> 7
    [] c = "8" -> 8 [] c = "9" -> 9

\* str.strip() restricted to the blank character
RECURSIVE LStrip(_)
LStrip(s) == IF s # <<>> /\ Head(s) = " " THEN LStrip(Tail(s)) ELSE s

RECURSIVE RStrip(_)
RStrip(s) ==
  IF s # <<>> /\ s[Len(s)] = " " THEN RStrip(SubSeq(s, 1, Len(s) - 1)) ELSE s

Strip(s) == LStrip(RStrip(s))

\* the digits of an int() literal: blanks stripped, one optional sign removed
IntBody(s) ==
  LET t == Strip(s)
  IN  IF t # <<>> /\ Head(t) \in {"-", "+"} THEN Tail(t) ELSE t

\* int(s) succeeds (digit-group underscores are not modelled)
IsIntLiteral(s) == IntBody(s) # <<>> /\ Range(IntBody(s)) \subseteq Digits

RECURSIVE DigitsVal(_)
DigitsVal(d) ==
  IF d = <<>> THEN 0
  ELSE 10 * DigitsVal(SubSeq(d, 1, Len(d) - 1)) + DigitVal(d[Len(d)])

\* int(s) for a literal s
IntOf(s) ==
  LET t == Strip(s)
  IN  IF Head(t) = "-" THEN 0 - DigitsVal(IntBody(s)) ELSE DigitsVal(IntBody(s))

\* str.replace(old, new) for a one-character old; new is a string
RECURSIVE Replace(_, _, _)
Replace(s, old, new) ==
  IF s = <<>> THEN <<>>
  ELSE (IF Head(s) = old THEN new ELSE <<Head(s)>>) \o Replace(Tail(s), old, new)

\* sub in s
Contains(s, sub) ==
  \E i \in 1..(Len(s) - Len(sub) + 1) : SubSeq(s, i, i + Len(sub) - 1) = sub

\* s.startswith(p)
StartsWith(s, p) == Len(s) >= Len(p) /\ SubSeq(s, 1, Len(p)) = p

\* s.split(",")
RECURSIVE SplitComma(_, _)
SplitComma(s, cur) ==
  IF s = <<>> THEN <<cur>>
  ELSE IF Head(s) = "," THEN <<cur>> \o SplitComma(Tail(s), <<>>)
  ELSE SplitComma(Tail(s), Append(cur, Head(s)))

\* sep.join(parts)
RECURSIVE Join(_, _)
Join(sep, parts) ==
  IF parts = <<>> THEN <<>>
  ELSE IF Len(parts) = 1 THEN parts[1]
  ELSE parts[1] \o sep \o Join(sep, Tail(parts))

(***************************************************************************)
(* Column Resolver                                                         *)
(***************************************************************************)
Return(v) == [raised |-> FALSE, value |-> v]
Raise(kind, msg) == [raised |-> TRUE, kind |-> kind, msg |-> msg]

\* a formatted message: the f-string's text and the values it interpolates,
\* each a string or a list of strings
Msg(text, fmt_args) == [text |-> text, args |-> fmt_args]
Str(s) == [str |-> s]
List(l) == [list |-> l]

OutOfRangeMsg(col_input) == Msg("Column index {} out of range.", <<Str(col_input)>>)
NotFoundMsg(col_input) == Msg("Column '{}' not found.", <<Str(col_input)>>)

\* the body of the try block: int() raises ValueError on a non-literal
resolve_try(col_input, all_columns) ==
  IF ~IsIntLiteral(col_input)
  THEN Raise("ValueError", Msg("invalid literal for int(): {}", <<Str(col_input)>>))
  ELSE LET idx == IntOf(col_input) - 1
       IN  IF 0 <= idx /\ idx < Len(all_columns)
           THEN Return(all_columns[idx + 1])
           ELSE Raise("ValueError", OutOfRangeMsg(col_input))

\* the except ValueError handler: the caught error is dropped
resolve_handler_nolookup(col_input, all_columns) ==
  Raise("ValueError", NotFoundMsg(col_input))

resolve_handler(col_input, all_columns) ==
  IF col_input \in Range(all_columns)
  THEN Return(col_input)
  ELSE Raise("ValueError", NotFoundMsg(col_input))

resolve_column(col_input, all_columns) ==
  LET t == resolve_try(col_input, all_columns)
  IN  IF t.raised /\ t.kind = "ValueError"
      THEN resolve_handler(col_input, all_columns)
      ELSE t

\* resolve_columns on a string: split on commas, strip, resolve each in order;
\* the first failure propagates
RECURSIVE resolve_each(_, _)
resolve_each(col_inputs, all_columns) ==
  IF col_inputs = <<>> THEN Return(<<>>)
  ELSE LET h == resolve_column(Head(col_inputs), all_columns)
       IN  IF h.raised THEN h
           ELSE LET t == resolve_each(Tail(col_inputs), all_columns)
                IN  IF t.raised THEN t ELSE Return(<<h.value>> \o t.value)

resolve_columns(col_inputs, all_columns) ==
  LET parts == SplitComma(col_inputs, <<>>)
  IN  resolve_each([i \in 1..Len(parts) |-> Strip(parts[i])], all_columns)

(***************************************************************************)
(* Tables (DataFrames)                                                     *)
(*                                                                         *)
(* A cell is a rational <<numerator, denominator>> in lowest terms; NaN is *)
(* <<0, 0>>.  A table is [columns: sequence of names, rows: sequence of    *)
(* functions from the names to cells].                                     *)
(***************************************************************************)
NaN == <<0, 0>>
IsNaN(v) == v[2] = 0
Val(n) == <<n, 1>>

Abs(n) == IF n < 0 THEN 0 - n ELSE n

RECURSIVE GCD(_, _)
GCD(a, b) == IF b = 0 THEN a ELSE GCD(b, a % b)

\* num/den in lowest terms, den > 0
Rat(num, den) ==
  LET g == GCD(Abs(num), den) IN <<num \div g, den \div g>>

\* a < b for cells that are not NaN
RatLess(a, b) == a[1] * b[2] < b[1] * a[2]

EmptyDF == [columns |-> <<>>, rows |-> <<>>]

\* DataFrame.empty: an axis of length 0
NeverEmptyDF(df) == FALSE

IsEmptyDF(df) == df.columns = <<>> \/ df.rows = <<>>

RECURSIVE SeqSum(_)
SeqSum(s) == IF s = <<>> THEN 0 ELSE Head(s) + SeqSum(Tail(s))

RECURSIVE DropNaN(_)
DropNaN(cells) ==
  IF cells = <<>> THEN <<>>
  ELSE (IF IsNaN(Head(cells)) THEN <<>> ELSE <<Head(cells)>>) \o DropNaN(Tail(cells))

\* the names of b that a lacks, in b's order, appended to a
RECURSIVE UnionColumns(_, _)
UnionColumns(a, b) ==
  IF b = <<>> THEN a
  ELSE UnionColumns(IF Head(b) \in Range(a) THEN a ELSE Append(a, Head(b)), Tail(b))

RECURSIVE AllColumns(_)
AllColumns(frames) ==
  IF frames = <<>> THEN <<>>
  ELSE UnionColumns(Head(frames).columns, AllColumns(Tail(frames)))

RECURSIVE AllRows(_)
AllRows(frames) ==
  IF frames = <<>> THEN <<>> ELSE Head(frames).rows \o AllRows(Tail(frames))

\* pd.concat(frames, axis=0, ignore_index=True): the union of the columns in
\* order of first appearance, the rows in order, NaN where a table lacks a column
concat(frames) ==
  LET cols == AllColumns(frames)
      rows == AllRows(frames)
      widen(r) == [c \in Range(cols) |-> IF c \in DOMAIN r THEN r[c] ELSE NaN]
  IN  [columns |-> cols, rows |-> [i \in 1..Len(rows) |-> widen(rows[i])]]

\* the cells of column c that are not NaN
Present(rows, c) == DropNaN([i \in 1..Len(rows) |-> rows[i][c]])

\* Series.mean(): NaN cells are skipped; NaN when none is left.  The input
\* cells are integers.
mean(rows, c) ==
  LET p == Present(rows, c)
  IN  IF p = <<>> THEN NaN
      ELSE Rat(SeqSum([i \in 1..Len(p) |-> p[i][1]]), Len(p))

\* Series.std() (ddof = 1), held as its square, the sample variance
\* (n * sum(v^2) - sum(v)^2) / (n * (n - 1)); NaN for fewer than two cells
std(rows, c) ==
  LET p == Present(rows, c)
      n == Len(p)
      s1 == SeqSum([i \in 1..n |-> p[i][1]])
      s2 == SeqSum([i \in 1..n |-> p[i][1] * p[i][1]])
  IN  IF n < 2 THEN NaN ELSE Rat(n * s2 - s1 * s1, n * (n - 1))

\* the distinct values of column c that are not NaN, ascending
RECURSIVE SortedCells(_)
SortedCells(S) ==
  IF S = {} THEN <<>>
  ELSE LET m == CHOOSE v \in S : \A w \in S : ~RatLess(w, v)
       IN  <<m>> \o SortedCells(S \ {m})

\* df.sort_values(by=x_col): stable, NaN last
RECURSIVE InsertByX(_, _, _)
InsertByX(sorted, r, x_col) ==
  IF sorted = <<>> THEN <<r>>
  ELSE IF IsNaN(r[x_col]) THEN Append(sorted, r)
  ELSE IF IsNaN(Head(sorted)[x_col]) \/ RatLess(r[x_col], Head(sorted)[x_col])
       THEN <<r>> \o sorted
  ELSE <<Head(sorted)>> \o InsertByX(Tail(sorted), r, x_col)

RECURSIVE sort_values(_, _)
sort_values(rows, x_col) ==
  IF rows = <<>> THEN <<>>
  ELSE InsertByX(sort_values(SubSeq(rows, 1, Len(rows) - 1), x_col),
                 rows[Len(rows)], x_col)

(***************************************************************************)
(* Aggregator                                                              *)
(***************************************************************************)
MEAN == <<"_", "m", "e", "a", "n">>
STD == <<"_", "s", "t", "d">>

\* [x_col] + y_cols + ([r_col] if r_col else [])
all_needed(x_col, y_cols, r_col) ==
  <<x_col>> \o y_cols \o (IF r_col # None /\ r_col # <<>> THEN <<r_col>> ELSE <<>>)

\* pd.cut(x, bins): equal-width intervals (e[i], e[i+1]], i in 0..bins-1, over
\* [mn, mx], the lowest edge moved down by 0.1% of the range; when mn = mx the
\* range is widened by 0.1% of |mn| (0.001 for mn = 0) on both sides first.
\* Edges are exact rationals, held as numerators over CutDen(bins); the
\* rounding of the interval labels to 3 digits is not modelled.
CutDen(bins) == 1000 * bins

CutEdge(i, mn, mx, bins) ==
  IF mn = mx
  THEN LET a == IF mn = 0 THEN 1 ELSE Abs(mn)
       IN  1000 * bins * mn - bins * a + 2 * a * i
  ELSE IF i = 0 THEN 1000 * bins * mn - (mx - mn) * bins
  ELSE 1000 * (mn * bins + i * (mx - mn))

\* Interval.mid of interval i
CutMid(i, mn, mx, bins) ==
  Rat(CutEdge(i, mn, mx, bins) + CutEdge(i + 1, mn, mx, bins), 2 * CutDen(bins))

\* the row's x lies in interval i (x cells are integers)
InBin(r, x_col, i, mn, mx, bins) ==
  /\ ~IsNaN(r[x_col])
  /\ CutEdge(i, mn, mx, bins) < r[x_col][1] * CutDen(bins)
  /\ r[x_col][1] * CutDen(bins) <= CutEdge(i + 1, mn, mx, bins)

RECURSIVE RowsInBin(_, _, _, _, _, _)
RowsInBin(rows, x_col, i, mn, mx, bins) ==
  IF rows = <<>> THEN <<>>
  ELSE (IF InBin(Head(rows), x_col, i, mn, mx, bins) THEN <<Head(rows)>> ELSE <<>>)
       \o RowsInBin(Tail(rows), x_col, i, mn, mx, bins)

RECURSIVE RowsWithX(_, _, _)
RowsWithX(rows, x_col, v) ==
  IF rows = <<>> THEN <<>>
  ELSE (IF Head(rows)[x_col] = v THEN <<Head(rows)>> ELSE <<>>)
       \o RowsWithX(Tail(rows), x_col, v)

\* y_mean, y_std for each aggregated column, then x
BinnedColumns(x_col, agg_cols) ==
  LET pair(c) == <<c \o MEAN, c \o STD>>
      RECURSIVE flat(_)
      flat(cs) == IF cs = <<>> THEN <<>> ELSE pair(Head(cs)) \o flat(Tail(cs))
  IN  flat(agg_cols) \o <<x_col>>

\* lines 113-120: one row per interval (groupby(observed=False) keeps the
\* intervals no row falls in).  unobserved_x is what grouped.apply yields for
\* such an interval: the midpoint when apply visits empty groups, NaN when it
\* does not; both occur among pandas releases.
binned_drop_empty(df, x_col, agg_cols, bins, unobserved_x) ==
  LET rows == sort_values(df.rows, x_col)
      xs == {r[x_col][1] : r \in {q \in Range(rows) : ~IsNaN(q[x_col])}}
      mn == CHOOSE v \in xs : \A w \in xs : v <= w
      mx == CHOOSE v \in xs : \A w \in xs : w <= v
      cols == BinnedColumns(x_col, agg_cols)
      row(i) ==
        LET g == RowsInBin(rows, x_col, i, mn, mx, bins)
        IN  [c \in Range(cols) |->
              IF c = x_col THEN CutMid(i, mn, mx, bins)
              ELSE IF \E a \in Range(agg_cols) : c = a \o MEAN
                   THEN mean(g, CHOOSE a \in Range(agg_cols) : c = a \o MEAN)
                   ELSE std(g, CHOOSE a \in Range(agg_cols) : c = a \o STD)]
      RECURSIVE observed(_)
      observed(i) ==
        IF i = bins THEN <<>>
        ELSE (IF RowsInBin(rows, x_col, i, mn, mx, bins) = <<>> THEN <<>>
              ELSE <<row(i)>>) \o observed(i + 1)
  IN  [columns |-> cols, rows |-> observed(0)]

binned(df, x_col, agg_cols, bins, unobserved_x) ==
  LET rows == sort_values(df.rows, x_col)
      xs == {r[x_col][1] : r \in {q \in Range(rows) : ~IsNaN(q[x_col])}}
      mn == CHOOSE v \in xs : \A w \in xs : v <= w
      mx == CHOOSE v \in xs : \A w \in xs : w <= v
      cols == BinnedColumns(x_col, agg_cols)
      row(i) ==
        LET g == RowsInBin(rows, x_col, i, mn, mx, bins)
        IN  [c \in Range(cols) |->
              IF c = x_col
              THEN IF g = <<>> /\ unobserved_x = "NaN" THEN NaN
                   ELSE CutMid(i, mn, mx, bins)
              ELSE IF \E a \in Range(agg_cols) : c = a \o MEAN
                   THEN mean(g, CHOOSE a \in Range(agg_cols) : c = a \o MEAN)
                   ELSE std(g, CHOOSE a \in Range(agg_cols) : c = a \o STD)]
  IN  [columns |-> cols, rows |-> [k \in 1..bins |-> row(k - 1)]]

\* line 122: df[all_needed].groupby(x_col, as_index=False).mean(): one row per
\* distinct x that is not NaN, ascending
unbinned_unsorted(df, needed) ==
  LET x_col == needed[1]
      row(r) == [c \in Range(needed) |->
                   IF c = x_col THEN r[x_col]
                   ELSE mean(RowsWithX(df.rows, x_col, r[x_col]), c)]
      RECURSIVE first_seen(_, _)
      first_seen(rows, seen) ==
        IF rows = <<>> THEN <<>>
        ELSE IF IsNaN(Head(rows)[x_col]) \/ Head(rows)[x_col] \in seen
             THEN first_seen(Tail(rows), seen)
        ELSE <<row(Head(rows))>>
             \o first_seen(Tail(rows), seen \cup {Head(rows)[x_col]})
  IN  [columns |-> needed, rows |-> first_seen(df.rows, {})]

unbinned(df, needed) ==
  LET x_col == needed[1]
      keys == SortedCells({r[x_col] : r \in {q \in Range(df.rows) : ~IsNaN(q[x_col])}})
      row(k) == [c \in Range(needed) |->
                   IF c = x_col THEN keys[k]
                   ELSE mean(RowsWithX(df.rows, x_col, keys[k]), c)]
  IN  [columns |-> needed, rows |-> [k \in 1..Len(keys) |-> row(k)]]

MissingMsg(df) ==
  Msg("Error: Required column(s) missing.\nAvailable: {}", <<List(df.columns)>>)

\* the result: the table returned, what was printed, and the exception that
\* left the function, if any
Result(df, out) == [raised |-> FALSE, df |-> df, out |-> out]

compute_average(data_frames, x_col, y_cols, r_col, bins, unobserved_x) ==
  IF data_frames = <<>> THEN Result(EmptyDF, <<>>)
  ELSE LET df == concat(data_frames)
           needed == all_needed(x_col, y_cols, r_col)
       IN  IF \E i \in 1..Len(needed) : needed[i] \notin Range(df.columns)
           THEN Result(EmptyDF, <<MissingMsg(df)>>)
           ELSE IF bins # 0
           THEN IF df.rows = <<>>
                THEN Raise("ValueError", Msg("Cannot cut empty array", <<>>))
                ELSE Result(binned(df, x_col, Tail(needed), bins, unobserved_x), <<>>)
           ELSE Result(unbinned(df, needed), <<>>)

(***************************************************************************)
(* Series Plotter                                                          *)
(*                                                                         *)
(* The figure is the sequence of drawing calls made on it.  Axis labels,   *)
(* legend, grid, axis scales and plt.show() change neither the series      *)
(* drawn nor the file written and are left out.                            *)
(***************************************************************************)
STYLES == <<"-", "--", "-.", ":">>
MARKERS == <<"o", "s", "^", "D", "v", "*">>

\* next() on itertools.cycle(items) at position pos (1-based): the position after
CycleNext(items, pos) == (pos % Len(items)) + 1

Column(df, c) == [i \in 1..Len(df.rows) |-> df.rows[i][c]]

\* f"{y} ({label})"
LegendLabel(y, label) == y \o <<" ", "(">> \o label \o <<")">>
LOG_FIT == <<"L", "o", "g", " ", "F", "i", "t">>

\* a drawing call; group is the iteration of the loop over the groups that
\* made it
Draw(op, axis, group, x, y, band, linestyle, marker, label, color) ==
  [op |-> op, axis |-> axis, group |-> group, x |-> x, y |-> y, band |-> band,
   linestyle |-> linestyle, marker |-> marker, label |-> label, color |-> color]

NoBand == <<>>

\* lines 136-147 and 161-172: the series of column c of one group on an axis,
\* and its band when a standard deviation is there and shading is on
series(df, x_col, c, axis, group, label, style, marker, color, no_std) ==
  LET has_mean == (c \o MEAN) \in Range(df.columns)
      y_val == IF has_mean THEN Column(df, c \o MEAN) ELSE Column(df, c)
      has_std == has_mean /\ (c \o STD) \in Range(df.columns)
      y_std == IF has_std THEN Column(df, c \o STD) ELSE NoBand
      x == Column(df, x_col)
  IN  <<Draw("plot", axis, group, x, y_val, NoBand, style, marker,
             LegendLabel(c, label), color)>>
      \o (IF has_std /\ ~no_std
          THEN <<Draw("fill_between", axis, group, x, y_val, y_std, "", "",
                      <<>>, color)>>
          ELSE <<>>)

\* the rows with x > 0 (NaN > 0 is false)
Valid(df, x_col) == {i \in 1..Len(df.rows) : df.rows[i][x_col][1] > 0}

RECURSIVE Pick(_, _, _)
Pick(cells, I, i) ==
  IF i > Len(cells) THEN <<>>
  ELSE (IF i \in I THEN <<cells[i]>> ELSE <<>>) \o Pick(cells, I, i + 1)

\* lines 150-158: np.polyfit raises TypeError on an empty vector; on NaN among
\* the values lstsq raises LinAlgError or returns NaN coefficients, depending
\* on the LAPACK build (polyfit_nan).  The fitted values are not computed.
log_fit_always(df, x_col, y, group, label, polyfit_nan) ==
  LET valid == Valid(df, x_col)
      y_val == IF (y \o MEAN) \in Range(df.columns)
               THEN Column(df, y \o MEAN) ELSE Column(df, y)
  IN  [figure |-> <<Draw("plot", 1, group, Pick(Column(df, x_col), valid, 1),
                          <<>>, NoBand, "--", "", LegendLabel(LOG_FIT, label), "")>>,
       out |-> <<>>]

log_fit(df, x_col, y, group, label, polyfit_nan) ==
  LET valid == Valid(df, x_col)
      y_val == IF (y \o MEAN) \in Range(df.columns)
               THEN Column(df, y \o MEAN) ELSE Column(df, y)
  IN  IF valid = {}
      THEN [figure |-> <<>>,
            out |-> <<Msg("Log fit failed for {}: {}",
                          <<Str(label), Str(<<"T", "y", "p", "e", "E", "r", "r", "o", "r">>)>>)>>]
      ELSE IF (\E i \in valid : IsNaN(y_val[i])) /\ polyfit_nan = "LinAlgError"
      THEN [figure |-> <<>>,
            out |-> <<Msg("Log fit failed for {}: {}",
                          <<Str(label), Str(<<"L", "i", "n", "A", "l", "g", "E", "r", "r", "o", "r">>)>>)>>]
      ELSE [figure |-> <<Draw("plot", 1, group, Pick(Column(df, x_col), valid, 1),
                              <<>>, NoBand, "--", "", LegendLabel(LOG_FIT, label), "")>>,
            out |-> <<>>]

\* line 149
fit_wanted(flag, x_col, y) ==
  flag /\ Contains(x_col, <<"T", "i", "m", "e">>) /\ Contains(y, <<"D", "i", "s", "p">>)

\* lines 135-158: the loop over the y columns of one group
RECURSIVE plot_y_cols(_, _, _, _, _, _, _, _, _)
plot_y_cols(df, x_col, ys, group, label, style, marker, flags, polyfit_nan) ==
  IF ys = <<>> THEN [figure |-> <<>>, out |-> <<>>]
  ELSE LET y == Head(ys)
           line == series(df, x_col, y, 1, group, label, style, marker, "",
                          flags.no_std)
           fit == IF fit_wanted(flags.log_fit, x_col, y)
                  THEN log_fit(df, x_col, y, group, label, polyfit_nan)
                  ELSE [figure |-> <<>>, out |-> <<>>]
           rest == plot_y_cols(df, x_col, Tail(ys), group, label, style, marker,
                               flags, polyfit_nan)
       IN  [figure |-> line \o fit.figure \o rest.figure,
            out |-> fit.out \o rest.out]

\* the style and marker of the group drawn after the next() calls of lines
\* 132-133 from positions spos and mpos
style_fixed(spos) == STYLES[1]

style_at(spos) == STYLES[spos]

marker_at(mpos) == MARKERS[mpos]

\* lines 130-172: the loop over zip(dfs, labels)
RECURSIVE plot_groups(_, _, _, _, _, _, _, _, _, _)
plot_groups(dfs, labels, k, spos, mpos, x_col, ys, r_col, flags, polyfit_nan) ==
  IF k > Len(dfs) \/ k > Len(labels) THEN [figure |-> <<>>, out |-> <<>>]
  ELSE LET style == style_at(spos)
           marker == marker_at(mpos)
           left == plot_y_cols(dfs[k], x_col, ys, k, labels[k], style, marker,
                               flags, polyfit_nan)
           right == IF r_col # None /\ r_col # <<>>
                    THEN series(dfs[k], x_col, r_col, 2, k, labels[k], style,
                                marker, "red", flags.no_std)
                    ELSE <<>>
           rest == plot_groups(dfs, labels, k + 1, CycleNext(STYLES, spos),
                               CycleNext(MARKERS, mpos), x_col, ys, r_col, flags,
                               polyfit_nan)
       IN  [figure |-> left.figure \o right \o rest.figure,
            out |-> left.out \o rest.out]

AVG_ == <<"_", "a", "v", "g", "_">>
VS_ == <<"_", "v", "s", "_">>
AND_ == <<"_", "a", "n", "d", "_">>
PNG == <<".", "p", "n", "g">>

\* lines 192-195
out_name(labels, x_col, ys, r_col) ==
  LET safe_x == Replace(Replace(Replace(x_col, " ", <<"_">>), "(", <<>>), ")", <<>>)
      safe_y == Join(<<"_">>, [i \in 1..Len(ys) |-> Replace(ys[i], " ", <<"_">>)])
      safe_r == IF r_col # None /\ r_col # <<>>
                THEN AND_ \o Replace(r_col, " ", <<"_">>) ELSE <<>>
  IN  Join(<<"-">>, labels) \o AVG_ \o safe_x \o VS_ \o safe_y \o safe_r \o PNG

\* plot_data: the drawing calls, then savefig and the last print
plot_data(dfs, x_col, ys, r_col, labels, flags, polyfit_nan) ==
  LET g == plot_groups(dfs, labels, 1, 1, 1, x_col, ys, r_col, flags, polyfit_nan)
      name == out_name(labels, x_col, ys, r_col)
  IN  [figure |-> g.figure \o <<Draw("savefig", 0, 0, <<>>, <<>>, NoBand, "", "",
                                     name, "")>>,
       out |-> g.out \o <<Msg("Plot saved to: {}", <<Str(name)>>)>>,
       outname |-> name]

(***************************************************************************)
(* Table Loader                                                            *)
(*                                                                         *)
(* A directory is [label: its base name, files: its entries in os.listdir  *)
(* order]; a file is [name, readable: pd.read_csv succeeds, table: what it *)
(* then yields, with the header as written in the file].                   *)
(***************************************************************************)
AVG_TXT == <<"A", "V", "G", ".", "t", "x", "t">>
DYN_TXT == <<"D", "Y", "N", ".", "t", "x", "t">>

EndsWith(s, p) == Len(s) >= Len(p) /\ SubSeq(s, Len(s) - Len(p) + 1, Len(s)) = p

\* lines 57 and 91
pattern(folder_name) ==
  IF StartsWith(folder_name, <<"F", "S">>) THEN AVG_TXT ELSE DYN_TXT

\* re.sub(r',\s+', ', ', s): a comma and the blanks after it become ", "
RECURSIVE CollapseAfterComma(_)
CollapseAfterComma(s) ==
  IF s = <<>> THEN <<>>
  ELSE IF Head(s) = "," /\ Len(s) >= 2 /\ s[2] = " "
       THEN <<",", " ">> \o CollapseAfterComma(LStrip(Tail(s)))
  ELSE <<Head(s)>> \o CollapseAfterComma(Tail(s))

\* clean_column_names: the columns are renamed in place, position by position
clean_column_names(df) ==
  LET clean == [i \in 1..Len(df.columns) |-> CollapseAfterComma(Strip(df.columns[i]))]
      pos(c) == CHOOSE i \in 1..Len(clean) : clean[i] = c
  IN  [columns |-> clean,
       rows |-> [k \in 1..Len(df.rows) |->
                   [c \in Range(clean) |-> df.rows[k][df.columns[pos(c)]]]]]

ReadError(name) == Msg("Failed to read {}: {}", <<Str(name), Str(<<"P", "a", "r", "s", "e", "r", "E", "r", "r", "o", "r">>)>>)

\* load_first_columns: the columns of the first matching file; read_csv is
\* not guarded, so its exception leaves the function
RECURSIVE first_columns(_, _, _)
first_columns(files, pat, folder_name) ==
  IF files = <<>> THEN [raised |-> FALSE, value |-> <<>>, out |-> <<>>]
  ELSE IF ~EndsWith(Head(files).name, pat) THEN first_columns(Tail(files), pat, folder_name)
  ELSE IF ~Head(files).readable
       THEN Raise("ParserError", ReadError(Head(files).name))
  ELSE LET cols == clean_column_names(Head(files).table).columns
       IN  [raised |-> FALSE, value |-> cols,
            out |-> <<Msg("Columns in {} from {}: {}",
                          <<Str(Head(files).name), Str(folder_name), List(cols)>>)>>]

load_first_columns(directory) ==
  first_columns(directory.files, pattern(directory.label), directory.label)

\* load_dataframes: every matching file, a failed read printed and skipped
RECURSIVE read_all(_, _)
read_all(files, pat) ==
  IF files = <<>> THEN [data |-> <<>>, out |-> <<>>]
  ELSE LET rest == read_all(Tail(files), pat)
       IN  IF ~EndsWith(Head(files).name, pat) THEN rest
           ELSE IF ~Head(files).readable
                THEN [data |-> rest.data,
                      out |-> <<ReadError(Head(files).name)>> \o rest.out]
           ELSE [data |-> <<clean_column_names(Head(files).table)>> \o rest.data,
                 out |-> rest.out]

load_dataframes(directory) == read_all(directory.files, pattern(directory.label))

(***************************************************************************)
(* main                                                                    *)
(***************************************************************************)
Truthy(s) == s # None /\ s # <<>>

\* lines 205-211: the three selectors in order; the first error is the one
\* caught and printed
resolve_args(a, first_cols) ==
  LET x == resolve_column(a.x_axis, first_cols)
      y == resolve_columns(a.y_axis, first_cols)
      r == IF Truthy(a.right_y_axis)
           THEN resolve_column(a.right_y_axis, first_cols) ELSE Return(None)
  IN  IF x.raised THEN x
      ELSE IF y.raised THEN y
      ELSE IF r.raised THEN r
      ELSE Return([x_col |-> x.value, y_cols |-> y.value, r_col |-> r.value])

\* lines 215-219: one directory of the loop: its frames, its average, and
\* whether the group is kept
group_of(d, x, ys, r, nbins, unobs) ==
  LET loaded == load_dataframes(d)
      a == compute_average(loaded.data, x, ys, r, nbins, unobs)
  IN  IF a.raised THEN a
      ELSE [raised |-> FALSE, out |-> loaded.out \o a.out, df |-> a.df,
            kept |-> ~IsEmptyDF(a.df), label |-> d.label]

(***************************************************************************)
(* State                                                                   *)
(***************************************************************************)
VARIABLES
  pc,                                 \* the position of the run
  col_input, all_columns, resolved,   \* one call of resolve_column
  data_frames, bins, avg,             \* one call of compute_average
  x_col, y_cols, r_col,               \* the resolved column names
  unobserved_x,                       \* the installed pandas: see binned
  polyfit_nan,                        \* the installed numpy: see log_fit
  args, dirs,                         \* the command line and the directories it names
  first_cols, i_dir, all_dfs, labels, \* the locals of main
  stdout, figure, outname,            \* what was printed, drawn and saved
  exit_status                         \* of the process; -1 while it runs

resvars == <<col_input, all_columns, resolved>>
aggvars == <<data_frames, bins, avg>>
colvars == <<x_col, y_cols, r_col>>
libvars == <<unobserved_x, polyfit_nan>>
envvars == <<args, dirs>>
runvars == <<first_cols, i_dir, all_dfs, labels, stdout, figure, outname, exit_status>>
vars == <<pc, resvars, aggvars, colvars, libvars, envvars, runvars>>

NoArgs == [x_axis |-> <<>>, y_axis |-> <<>>, right_y_axis |-> None, bins |-> 0,
           log_fit |-> FALSE, no_std |-> FALSE]
NoRun ==
  /\ first_cols = <<>> /\ i_dir = 0 /\ all_dfs = <<>> /\ labels = <<>>
  /\ stdout = <<>> /\ figure = <<>> /\ outname = <<>> /\ exit_status = -1
NoMain == args = NoArgs /\ dirs = <<>> /\ NoRun

NoResolveCall == col_input = <<>> /\ all_columns = <<>> /\ resolved = Return(<<>>)
NoAverageCall == data_frames = <<>> /\ bins = 0 /\ avg = Result(EmptyDF, <<>>)
NoColumns == x_col = <<>> /\ y_cols = <<>> /\ r_col = None

(***************************************************************************)
(* Specification of one resolve_column call                                *)
(***************************************************************************)
MaxTokLen == 2
MaxCols == 2

TokenChars == {"0", "1", "2", "3", "-", " ", "T"}
Tokens == UNION {[1..n -> TokenChars] : n \in 1..MaxTokLen}

\* header names as read_csv yields them: distinct strings
ResolverNames == {<<"T">>, <<"D">>, <<"2">>, <<"3">>}
ColumnLists ==
  {c \in UNION {[1..n -> ResolverNames] : n \in 0..MaxCols} :
     \A i, j \in 1..Len(c) : i # j => c[i] # c[j]}

InitResolve ==
  /\ pc = "call"
  /\ col_input \in Tokens
  /\ all_columns \in ColumnLists
  /\ resolved = Return(<<>>)
  /\ NoAverageCall /\ NoColumns /\ NoMain
  /\ unobserved_x = "mid" /\ polyfit_nan = "nan"

CallResolve ==
  /\ pc = "call"
  /\ pc' = "returned"
  /\ resolved' = resolve_column(col_input, all_columns)
  /\ UNCHANGED <<col_input, all_columns, aggvars, colvars, libvars, envvars, runvars>>

SpecResolve == InitResolve /\ [][CallResolve]_vars

(***************************************************************************)
(* Specification of one compute_average call                               *)
(***************************************************************************)
MaxRows == 3      \* rows in all tables of a group together
MaxFrames == 2    \* tables of a group
MaxBins == 2

TIME == <<"T", "i", "m", "e">>
DISP == <<"D", "i", "s", "p">>
LOAD == <<"L", "o", "a", "d">>

XVals == {0, 1, 2}
YVals == {0, 1}

\* a data row: the right-axis column follows the y column
DataRow(x, y) == (TIME :> Val(x)) @@ (DISP :> Val(y)) @@ (LOAD :> Val(y + 1))
DataRows == {DataRow(x, y) : x \in XVals, y \in YVals}
Table(rows) == [columns |-> <<TIME, DISP, LOAD>>, rows |-> rows]

TablesUpTo(n) == {Table(rs) : rs \in UNION {[1..k -> DataRows] : k \in 0..n}}

\* the lists of at most k tables holding at most n rows together
RECURSIVE FrameLists(_, _)
FrameLists(k, n) ==
  IF k = 0 THEN {<<>>}
  ELSE {<<>>} \cup
       UNION {{<<t>> \o rest : rest \in FrameLists(k - 1, n - Len(t.rows))} :
                t \in TablesUpTo(n)}

\* the two tables of the specification's example
ExampleFrames ==
  LET row(x, y) == (TIME :> Val(x)) @@ (DISP :> Val(y))
      tab(rs) == [columns |-> <<TIME, DISP>>, rows |-> rs]
  IN  << tab(<<row(0, 0), row(1, 2), row(2, 4)>>),
         tab(<<row(0, 1), row(1, 3), row(2, 5)>>) >>

InitAverage ==
  /\ pc = "call"
  /\ \/ /\ data_frames \in FrameLists(MaxFrames, MaxRows)
        /\ r_col \in {None, LOAD}
     \/ /\ data_frames = ExampleFrames
        /\ r_col = None
  /\ x_col = TIME
  /\ y_cols = <<DISP>>
  /\ bins \in 0..MaxBins
  /\ unobserved_x \in {"mid", "NaN"}
  /\ polyfit_nan = "nan"
  /\ avg = Result(EmptyDF, <<>>)
  /\ NoResolveCall /\ NoMain

CallAverage ==
  /\ pc = "call"
  /\ pc' = "returned"
  /\ avg' = compute_average(data_frames, x_col, y_cols, r_col, bins, unobserved_x)
  /\ UNCHANGED <<data_frames, bins, colvars, libvars, resvars, envvars, runvars>>

SpecAverage == InitAverage /\ [][CallAverage]_vars

(***************************************************************************)
(* Specification of one plot_data call                                     *)
(***************************************************************************)
MaxGroups == 13   \* groups with the same data
MaxVaried == 2    \* groups with data of any kind

TIME_S == <<"T", "i", "m", "e", " ", "(", "s", ")">>
DISP_NM == <<"D", "i", "s", "p", " ", "(", "n", "m", ")">>

SampleRow(x, y, l) == (TIME_S :> Val(x)) @@ (DISP_NM :> Val(y)) @@ (LOAD :> Val(l))
SampleTable(rows) == [columns |-> <<TIME_S, DISP_NM, LOAD>>, rows |-> rows]

\* x all positive; no positive x; x with a gap that leaves an interval empty
SampleFrames(kind) ==
  CASE kind = "positive" -> <<SampleTable(<<SampleRow(1, 2, 5), SampleRow(2, 4, 6)>>)>>
    [] kind = "zero" -> <<SampleTable(<<SampleRow(0, 1, 5), SampleRow(0, 3, 5)>>)>>
    [] kind = "gap" -> <<SampleTable(<<SampleRow(1, 2, 5)>>),
                         SampleTable(<<SampleRow(4, 4, 6)>>)>>

Kinds == {"positive", "zero", "gap"}
KindLists ==
  UNION {[1..n -> Kinds] : n \in 1..MaxVaried}
    \cup {[k \in 1..n |-> "positive"] : n \in 1..MaxGroups}

\* x, the y columns and the right-axis column: distinct columns
ColumnChoices ==
  {c \in [x : {TIME_S, LOAD}, ys : {<<DISP_NM>>, <<LOAD>>, <<DISP_NM, LOAD>>, <<LOAD, DISP_NM>>},
          r : {None, LOAD}] :
     /\ c.x \notin Range(c.ys)
     /\ c.r \notin Range(c.ys) \cup {c.x}}

LabelChars == <<"a", "b", "c", "d", "e", "f", "g", "h", "i", "j", "k", "l", "m",
                "n", "o", "p">>

InitPlot ==
  /\ pc = "call"
  /\ \E c \in ColumnChoices : x_col = c.x /\ y_cols = c.ys /\ r_col = c.r
  /\ \E b \in {0, 3}, lf \in BOOLEAN, ns \in BOOLEAN :
       args = [NoArgs EXCEPT !.bins = b, !.log_fit = lf, !.no_std = ns]
  /\ unobserved_x \in {"mid", "NaN"}
  /\ polyfit_nan \in {"LinAlgError", "nan"}
  /\ \E ks \in KindLists :
       /\ all_dfs = [k \in 1..Len(ks) |->
                       compute_average(SampleFrames(ks[k]), x_col, y_cols, r_col,
                                       args.bins, unobserved_x).df]
       /\ labels = [k \in 1..Len(ks) |-> <<LabelChars[k]>>]
  /\ dirs = <<>> /\ first_cols = <<>> /\ i_dir = 0
  /\ stdout = <<>> /\ figure = <<>> /\ outname = <<>> /\ exit_status = -1
  /\ NoResolveCall /\ NoAverageCall

CallPlot ==
  /\ pc = "call"
  /\ pc' = "returned"
  /\ LET p == plot_data(all_dfs, x_col, y_cols, r_col, labels, args, polyfit_nan)
     IN  figure' = p.figure /\ stdout' = p.out /\ outname' = p.outname
  /\ UNCHANGED <<resvars, aggvars, colvars, libvars, envvars,
                 first_cols, i_dir, all_dfs, labels, exit_status>>

SpecPlot == InitPlot /\ [][CallPlot]_vars

(***************************************************************************)
(* Specification of a run of main                                          *)
(***************************************************************************)
MaxDirs == 3      \* directories on the command line
MaxFiles == 3     \* files in all directories together

F_NAME(c, suffix) == <<c>> \o suffix
Unread == EmptyDF

\* the files found in the directories: a full table (its first header
\* written with a trailing blank), a table without the y column, a file
\* read_csv fails on, a full table under the other suffix, and a file that
\* holds the header and no data row
FileCatalogue ==
  { [name |-> F_NAME("a", DYN_TXT), readable |-> TRUE,
     table |-> [columns |-> <<TIME_S \o <<" ">>, DISP_NM, LOAD>>,
                rows |-> << (TIME_S \o <<" ">> :> Val(1)) @@ (DISP_NM :> Val(2)) @@ (LOAD :> Val(5)),
                            (TIME_S \o <<" ">> :> Val(2)) @@ (DISP_NM :> Val(4)) @@ (LOAD :> Val(6)) >>]],
    [name |-> F_NAME("b", DYN_TXT), readable |-> TRUE,
     table |-> [columns |-> <<TIME_S, LOAD>>,
                rows |-> << (TIME_S :> Val(1)) @@ (LOAD :> Val(5)) >>]],
    [name |-> F_NAME("c", DYN_TXT), readable |-> FALSE, table |-> Unread],
    [name |-> F_NAME("d", AVG_TXT), readable |-> TRUE,
     table |-> SampleTable(<<SampleRow(0, 1, 5), SampleRow(3, 3, 7)>>)],
    [name |-> F_NAME("e", DYN_TXT), readable |-> TRUE, table |-> SampleTable(<<>>)] }

\* the listings of at most n files: the names in a directory are distinct
Listings(n) ==
  {fs \in UNION {[1..k -> FileCatalogue] : k \in 0..n} :
     \A i, j \in 1..Len(fs) : i # j => fs[i] # fs[j]}

DirLabels == {<<"A">>, <<"B">>, <<"F", "S", "1">>}

\* the lists of at most k directories holding at most n files together, under
\* base names not used before
RECURSIVE DirLists(_, _, _)
DirLists(k, n, used) ==
  IF k = 0 THEN {<<>>}
  ELSE {<<>>} \cup
       UNION {{<<[label |-> l, files |-> fs]>> \o rest :
                 rest \in DirLists(k - 1, n - Len(fs), used \cup {l})} :
                l \in DirLabels \ used, fs \in Listings(n)}

COL_1 == <<"1">>
COL_2 == <<"2">>
COL_3 == <<"3">>
COL_9 == <<"9">>
COL_2_3 == <<"2", ",", " ", "3">>
COL_ZZ == <<"z", "z">>

\* command lines whose selectors resolve against the full header
CoreArgs ==
  {a \in [x_axis : {COL_1}, y_axis : {COL_2, COL_2_3},
          right_y_axis : {None, COL_3}, bins : {0, 2},
          log_fit : {FALSE}, no_std : {FALSE}] :
     a.right_y_axis = None \/ a.y_axis # COL_2_3}

\* command lines with selectors that may not resolve
AllArgs ==
  {a \in [x_axis : {COL_1, COL_9}, y_axis : {COL_2, COL_2_3, DISP_NM, COL_ZZ},
          right_y_axis : {None, COL_3, COL_9}, bins : {0, 2},
          log_fit : BOOLEAN, no_std : {FALSE}] :
     a.right_y_axis # COL_3 \/ a.y_axis # COL_2_3}

Init ==
  /\ pc = "start"
  /\ \/ /\ dirs \in DirLists(MaxDirs, MaxFiles, {}) \ {<<>>}
        /\ args \in CoreArgs
     \/ /\ dirs \in DirLists(1, 2, {}) \ {<<>>}
        /\ args \in AllArgs
  /\ unobserved_x = "mid"
  /\ polyfit_nan = "LinAlgError"
  /\ NoRun /\ NoColumns /\ NoResolveCall /\ NoAverageCall

Traceback(e) == Msg("Traceback (most recent call last): {}", <<Str(e.msg.text)>>)

\* line 204: an exception of load_first_columns ends the process
LoadFirst ==
  /\ pc = "start"
  /\ LET f == load_first_columns(dirs[1])
     IN  IF f.raised
         THEN /\ pc' = "crashed"
              /\ exit_status' = 1
              /\ stdout' = Append(stdout, Traceback(f))
              /\ UNCHANGED first_cols
         ELSE /\ pc' = "resolve"
              /\ first_cols' = f.value
              /\ stdout' = stdout \o f.out
              /\ UNCHANGED exit_status
  /\ UNCHANGED <<resvars, aggvars, colvars, libvars, envvars,
                 i_dir, all_dfs, labels, figure, outname>>

\* lines 205-213: a selector that does not resolve is printed and main returns
ResolveSelectors ==
  /\ pc = "resolve"
  /\ LET r == resolve_args(args, first_cols)
     IN  IF r.raised
         THEN /\ pc' = "done"
              /\ exit_status' = 0
              /\ stdout' = Append(stdout, Msg("X {}", <<Str(r.msg.text)>> \o r.msg.args))
              /\ UNCHANGED <<colvars, i_dir>>
         ELSE /\ pc' = "loop"
              /\ x_col' = r.value.x_col
              /\ y_cols' = r.value.y_cols
              /\ r_col' = r.value.r_col
              /\ i_dir' = 1
              /\ UNCHANGED <<stdout, exit_status>>
  /\ UNCHANGED <<resvars, aggvars, libvars, envvars, first_cols, all_dfs, labels,
                 figure, outname>>

\* lines 214-219: one iteration of the loop over the directories
NextDir ==
  /\ pc = "loop"
  /\ i_dir <= Len(dirs)
  /\ LET g == group_of(dirs[i_dir], x_col, y_cols, r_col, args.bins, unobserved_x)
     IN  IF g.raised
         THEN /\ pc' = "crashed"
              /\ exit_status' = 1
              /\ stdout' = Append(stdout, Traceback(g))
              /\ UNCHANGED <<i_dir, all_dfs, labels>>
         ELSE /\ stdout' = stdout \o g.out
              /\ all_dfs' = IF g.kept THEN Append(all_dfs, g.df) ELSE all_dfs
              /\ labels' = IF g.kept THEN Append(labels, g.label) ELSE labels
              /\ i_dir' = i_dir + 1
              /\ UNCHANGED <<pc, exit_status>>
  /\ UNCHANGED <<resvars, aggvars, colvars, libvars, envvars, first_cols,
                 figure, outname>>

\* lines 221-222
Plot ==
  /\ pc = "loop"
  /\ i_dir > Len(dirs)
  /\ all_dfs # <<>>
  /\ LET p == plot_data(all_dfs, x_col, y_cols, r_col, labels, args, polyfit_nan)
     IN  figure' = p.figure /\ stdout' = stdout \o p.out /\ outname' = p.outname
  /\ pc' = "done"
  /\ exit_status' = 0
  /\ UNCHANGED <<resvars, aggvars, colvars, libvars, envvars, first_cols,
                 i_dir, all_dfs, labels>>

\* lines 223-224
NoData ==
  /\ pc = "loop"
  /\ i_dir > Len(dirs)
  /\ all_dfs = <<>>
  /\ stdout' = Append(stdout, Msg("X No data to plot.", <<>>))
  /\ pc' = "done"
  /\ exit_status' = 0
  /\ UNCHANGED <<resvars, aggvars, colvars, libvars, envvars, first_cols,
                 i_dir, all_dfs, labels, figure, outname>>

Next == LoadFirst \/ ResolveSelectors \/ NextDir \/ Plot \/ NoData

Spec == Init /\ [][Next]_vars

(***************************************************************************)
(* Properties of the Column Resolver (under SpecResolve)                   *)
(***************************************************************************)
InRangeIndex(tok, cols) ==
  IsIntLiteral(tok) /\ 1 <= IntOf(tok) /\ IntOf(tok) <= Len(cols)

\* C1: a token that parses as an integer n with 1 <= n <= len(columns) yields
\* columns[n-1]; for n = 0 or n > len(columns) the call fails and the error
\* reported is the "index out of range" error, not the "not found" error.
C1_OutOfRangeReported ==
  (pc = "returned" /\ IsIntLiteral(col_input)) =>
    LET n == IntOf(col_input)
    IN  /\ InRangeIndex(col_input, all_columns) =>
             resolved = Return(all_columns[n])
        /\ (n = 0 \/ n > Len(all_columns)) =>
             /\ resolved.raised
             /\ resolved.msg = OutOfRangeMsg(col_input)

InputRows == AllRows(data_frames)

RECURSIVE IndexSum(_, _, _)
IndexSum(rows, c, I) ==
  IF I = {} THEN 0
  ELSE LET i == CHOOSE j \in I : TRUE
       IN  rows[i][c][1] + IndexSum(rows, c, I \ {i})

Averaged == y_cols \o (IF r_col = None THEN <<>> ELSE <<r_col>>)

\* C7: without a bin count the result has exactly one row per distinct x of
\* the input tables, in ascending order of x, and its value for each requested
\* column is the arithmetic mean over all rows of all tables with that x.
C7_UnbinnedMeans ==
  (pc = "returned" /\ bins = 0) =>
    LET out == avg.df.rows
        X == {InputRows[i][x_col] : i \in 1..Len(InputRows)}
    IN  /\ ~avg.raised
        /\ Len(out) = Cardinality(X)
        /\ \A k \in 1..Len(out) : out[k][x_col] \in X
        /\ \A k \in 1..(Len(out) - 1) : RatLess(out[k][x_col], out[k + 1][x_col])
        /\ \A k \in 1..Len(out) : \A j \in 1..Len(Averaged) :
             LET I == {i \in 1..Len(InputRows) : InputRows[i][x_col] = out[k][x_col]}
                 m == out[k][Averaged[j]]
             IN  /\ m[2] > 0
                 /\ m[1] * Cardinality(I) = m[2] * IndexSum(InputRows, Averaged[j], I)

\* C7 witness: the example of the specification, tables [(0,0),(1,2),(2,4)]
\* and [(0,1),(1,3),(2,5)], has given (0, 0.5), (1, 2.5), (2, 4.5).
C7_ExampleWitness ==
  /\ pc = "returned"
  /\ bins = 0
  /\ data_frames = ExampleFrames
  /\ avg.df.rows = << (TIME :> <<0, 1>>) @@ (DISP :> <<1, 2>>),
                      (TIME :> <<1, 1>>) @@ (DISP :> <<5, 2>>),
                      (TIME :> <<2, 1>>) @@ (DISP :> <<9, 2>>) >>

\* the least and the greatest x of the input, and the rows of interval k
\* (k in 1..bins)
MinX == CHOOSE v \in {r[x_col][1] : r \in Range(InputRows)} :
          \A r \in Range(InputRows) : v <= r[x_col][1]
MaxX == CHOOSE v \in {r[x_col][1] : r \in Range(InputRows)} :
          \A r \in Range(InputRows) : r[x_col][1] <= v
InInterval(k) ==
  {i \in 1..Len(InputRows) :
     /\ CutEdge(k - 1, MinX, MaxX, bins) < InputRows[i][x_col][1] * CutDen(bins)
     /\ InputRows[i][x_col][1] * CutDen(bins) <= CutEdge(k, MinX, MaxX, bins)}

\* C6 as stated: with a bin count the result has exactly one row for each
\* interval that contains at least one input row and none for an interval
\* that contains no row (no NaN row), each row carrying the interval midpoint.
C6_EmptyIntervalsOmitted ==
  (pc = "returned" /\ bins > 0 /\ InputRows # <<>>) =>
    LET out == avg.df.rows
        NonEmpty == {k \in 1..bins : InInterval(k) # {}}
    IN  /\ ~avg.raised
        /\ Len(out) = Cardinality(NonEmpty)
        /\ \A n \in 1..Len(out) :
             /\ ~IsNaN(out[n][DISP \o MEAN])
             /\ \E k \in NonEmpty : out[n][x_col] = CutMid(k - 1, MinX, MaxX, bins)

\* C6 (amended): with a bin count and at least one input row the result has
\* exactly one row for each of the bins equal-width intervals, in ascending
\* order, also for an interval that contains no input row, whose mean and
\* standard deviation are NaN; the row of an interval that contains an input
\* row carries the interval midpoint as its x value and the mean of its rows.
C6_OneRowPerInterval ==
  (pc = "returned" /\ bins > 0 /\ InputRows # <<>>) =>
    LET out == avg.df.rows
    IN  /\ ~avg.raised
        /\ Len(out) = bins
        /\ \A k \in 1..bins : \A j \in 1..Len(Averaged) :
             LET I == InInterval(k)
                 m == out[k][Averaged[j] \o MEAN]
             IN  IF I = {}
                 THEN IsNaN(m) /\ IsNaN(out[k][Averaged[j] \o STD])
                 ELSE /\ out[k][x_col] = CutMid(k - 1, MinX, MaxX, bins)
                      /\ m[2] > 0
                      /\ m[1] * Cardinality(I) = m[2] * IndexSum(InputRows, Averaged[j], I)

\* C6 witness: a binned call has returned and an interval without input rows
\* has its row in the result.
C6_EmptyIntervalWitness ==
  /\ pc = "returned"
  /\ bins > 0
  /\ InputRows # <<>>
  /\ ~avg.raised
  /\ \E k \in 1..bins : InInterval(k) = {} /\ IsNaN(avg.df.rows[k][DISP \o MEAN])

(***************************************************************************)
(* Properties of a run of main (under Spec)                                *)
(***************************************************************************)
\* the tables of the files of d that match its suffix and can be read
GoodTables(d) ==
  {clean_column_names(d.files[i].table) :
     i \in {j \in 1..Len(d.files) :
              /\ EndsWith(d.files[j].name,
                          IF StartsWith(d.label, <<"F", "S">>) THEN AVG_TXT ELSE DYN_TXT)
              /\ d.files[j].readable}}

Needed == {x_col} \cup Range(y_cols) \cup (IF r_col = None THEN {} ELSE {r_col})

\* a required column is in none of the tables of d
MissingColumn(d) ==
  /\ GoodTables(d) # {}
  /\ \E c \in Needed : \A t \in GoodTables(d) : c \notin Range(t.columns)

HasRows(d) == \E t \in GoodTables(d) : t.rows # <<>>

Plottable(d) == GoodTables(d) # {} /\ ~MissingColumn(d) /\ HasRows(d)

RECURSIVE PlottableUpTo(_)
PlottableUpTo(n) ==
  IF n = 0 THEN <<>>
  ELSE PlottableUpTo(n - 1) \o (IF Plottable(dirs[n]) THEN <<dirs[n].label>> ELSE <<>>)

MissingText == "Error: Required column(s) missing.\nAvailable: {}"

\* C3: a group whose tables lack a required column gets a missing-column
\* error and an empty result and is left out of the plot; it never ends the
\* run, and every other directory, before or after it, is loaded, aggregated
\* and plotted in input order under its own label.
C3_MissingGroupSkipped ==
  i_dir >= 1 =>
    LET seen == IF pc = "crashed" THEN i_dir - 1 ELSE
                IF i_dir > Len(dirs) THEN Len(dirs) ELSE i_dir - 1
    IN  /\ labels = PlottableUpTo(seen)
        /\ Len(all_dfs) = Len(labels)
        /\ \A k \in 1..Len(all_dfs) : all_dfs[k].rows # <<>>
        /\ Cardinality({n \in 1..Len(stdout) : stdout[n].text = MissingText})
             = Cardinality({i \in 1..seen : MissingColumn(dirs[i])})
        /\ pc = "crashed" => ~MissingColumn(dirs[i_dir])
        /\ (pc = "done" /\ \E i \in 1..Len(dirs) : Plottable(dirs[i])) =>
             \A k \in 1..Len(labels) : \A j \in 1..Len(y_cols) :
               \E n \in 1..Len(figure) :
                 /\ figure[n].op = "plot"
                 /\ figure[n].group = k
                 /\ figure[n].label = LegendLabel(y_cols[j], labels[k])

\* C3 witness: a run has ended with a plot although a directory between two
\* plotted ones lacked a required column.
C3_MissingBetweenWitness ==
  /\ pc = "done"
  /\ Len(dirs) = 3
  /\ Plottable(dirs[1]) /\ MissingColumn(dirs[2]) /\ Plottable(dirs[3])
  /\ labels = <<dirs[1].label, dirs[3].label>>
  /\ figure # <<>>

\* the labels main keeps for the directories ds, with the columns of this run
RECURSIVE KeptLabels(_)
KeptLabels(ds) ==
  IF ds = <<>> THEN <<>>
  ELSE LET g == group_of(Head(ds), x_col, y_cols, r_col, args.bins, unobserved_x)
       IN  (IF g.kept THEN <<g.label>> ELSE <<>>) \o KeptLabels(Tail(ds))

\* C4: the output file name is the same for the same groups and columns in
\* whatever order the groups are listed, and whitespace and parentheses are
\* stripped from the x, y and right-axis column names alike.
C4_NameIndependentOfOrder ==
  (pc = "done" /\ figure # <<>>) =>
    /\ \A p \in Permutations(1..Len(dirs)) :
         out_name(KeptLabels([i \in 1..Len(dirs) |-> dirs[p[i]]]), x_col, y_cols, r_col)
           = outname
    /\ Range(outname) \cap {" ", "(", ")"} = {}

\* the first file of d that matches its suffix: its position, 0 for none
FirstMatching(d) ==
  LET M == {j \in 1..Len(d.files) :
              EndsWith(d.files[j].name,
                       IF StartsWith(d.label, <<"F", "S">>) THEN AVG_TXT ELSE DYN_TXT)}
  IN  IF M = {} THEN 0 ELSE CHOOSE j \in M : \A i \in M : j <= i

Unresolvable(tok, cols) == ~InRangeIndex(tok, cols) /\ tok \notin Range(cols)

\* required input is missing: the first directory has no matching file, or a
\* selector names no column of its first matching file
MissingInput ==
  LET d == dirs[1]
      m == FirstMatching(d)
  IN  \/ m = 0
      \/ /\ d.files[m].readable
         /\ LET cols == clean_column_names(d.files[m].table).columns
                ys == SplitComma(args.y_axis, <<>>)
            IN  \/ Unresolvable(args.x_axis, cols)
                \/ \E i \in 1..Len(ys) : Unresolvable(Strip(ys[i]), cols)
                \/ args.right_y_axis # None /\ Unresolvable(args.right_y_axis, cols)

\* C5 as stated: a run in which required input is missing prints a diagnostic
\* and ends with a non-zero exit status, without aggregating or plotting.
C5_MissingInputNonZeroExit ==
  (pc \in {"done", "crashed"} /\ MissingInput) =>
    /\ stdout # <<>>
    /\ exit_status # 0
    /\ i_dir = 0 /\ all_dfs = <<>> /\ figure = <<>>

\* C5, what the code does instead: a run in which required input is missing
\* prints a diagnostic and main returns, so the process ends with exit status
\* 0; the run never reaches aggregation or plotting.
C5_MissingInputReturns ==
  MissingInput =>
    /\ pc \in {"start", "resolve", "done"}
    /\ i_dir = 0 /\ all_dfs = <<>> /\ labels = <<>> /\ figure = <<>> /\ outname = <<>>
    /\ pc = "done" =>
         /\ exit_status = 0
         /\ stdout # <<>>
         /\ stdout[Len(stdout)].text = "X {}"
         /\ stdout[Len(stdout)].args[1] = Str("Column '{}' not found.")

\* C5 witness: a run whose first directory holds no file with the expected
\* suffix has ended.
C5_NoMatchingFileWitness ==
  /\ pc = "done"
  /\ FirstMatching(dirs[1]) = 0
  /\ dirs[1].files # <<>>
  /\ exit_status = 0

\* the files of d that match its suffix and cannot be read
Unreadable(d) ==
  {d.files[j].name :
     j \in {i \in 1..Len(d.files) :
              /\ EndsWith(d.files[i].name,
                          IF StartsWith(d.label, <<"F", "S">>) THEN AVG_TXT ELSE DYN_TXT)
              /\ ~d.files[i].readable}}

Reported(name) ==
  \E n \in 1..Len(stdout) :
    stdout[n].text = "Failed to read {}: {}" /\ stdout[n].args[1] = Str(name)

\* C8: a failed read is reported for its file, the file is skipped and the
\* run goes on with the remaining files; this holds for the read of the first
\* matching file of the first directory too.
C8_FailedReadSkipped ==
  /\ (pc # "start" /\ FirstMatching(dirs[1]) # 0
        /\ ~dirs[1].files[FirstMatching(dirs[1])].readable) =>
       /\ pc # "crashed"
       /\ Reported(dirs[1].files[FirstMatching(dirs[1])].name)
  /\ \A i \in 1..Len(dirs) :
       (i_dir > i) => \A f \in Unreadable(dirs[i]) : Reported(f)

(***************************************************************************)
(* Properties of the Series Plotter (under SpecPlot)                       *)
(***************************************************************************)
FitLines(k) ==
  {n \in 1..Len(figure) :
     /\ figure[n].op = "plot"
     /\ figure[n].group = k
     /\ figure[n].label = LegendLabel(LOG_FIT, labels[k])}

FitFailures(k) ==
  {n \in 1..Len(stdout) :
     /\ stdout[n].text = "Log fit failed for {}: {}"
     /\ stdout[n].args[1] = Str(labels[k])}

\* the y columns a fit is due for
FitColumns ==
  {j \in 1..Len(y_cols) :
     /\ args.log_fit
     /\ Contains(x_col, <<"T", "i", "m", "e">>)
     /\ Contains(y_cols[j], <<"D", "i", "s", "p">>)}

NoPositiveX(df) == \A i \in 1..Len(df.rows) : df.rows[i][x_col][1] <= 0

\* C9: a log fit is attempted for a (group, y column) pair only if log-fit
\* mode is on, the x name contains "Time" and the y name contains "Disp"; when
\* it fails, as when no row has positive x, a diagnostic is printed, no fit
\* line is drawn for the pair, and the other y columns, the right-axis series,
\* the other groups and the saving of the image still take place.
C9_LogFitGuarded ==
  pc = "returned" =>
    /\ \A k \in 1..Len(all_dfs) :
         /\ Cardinality(FitLines(k)) + Cardinality(FitFailures(k))
              = Cardinality(FitColumns)
         /\ NoPositiveX(all_dfs[k]) =>
              FitLines(k) = {} /\ Cardinality(FitFailures(k)) = Cardinality(FitColumns)
         /\ \A j \in 1..Len(y_cols) :
              \E n \in 1..Len(figure) :
                /\ figure[n].op = "plot" /\ figure[n].axis = 1 /\ figure[n].group = k
                /\ figure[n].label = LegendLabel(y_cols[j], labels[k])
         /\ r_col # None =>
              \E n \in 1..Len(figure) :
                /\ figure[n].op = "plot" /\ figure[n].axis = 2 /\ figure[n].group = k
                /\ figure[n].label = LegendLabel(r_col, labels[k])
    /\ figure[Len(figure)].op = "savefig"
    /\ figure[Len(figure)].label = outname /\ outname # <<>>

\* C9 witness: log-fit mode is on, the fit of the first of two y columns has
\* failed for a group without positive x, a fit line was drawn for the group
\* after it, and the call has returned.
C9_FitFailureWitness ==
  /\ pc = "returned"
  /\ args.log_fit
  /\ Len(y_cols) = 2 /\ 1 \in FitColumns
  /\ Len(all_dfs) >= 2
  /\ NoPositiveX(all_dfs[1])
  /\ FitFailures(1) # {}
  /\ FitLines(2) # {}

\* the series of group k on either axis (the fit lines are not series)
SeriesOf(k) ==
  {n \in 1..Len(figure) :
     /\ figure[n].op = "plot"
     /\ figure[n].group = k
     /\ figure[n].label # LegendLabel(LOG_FIT, labels[k])}

Combination(k) ==
  LET n == CHOOSE m \in SeriesOf(k) : TRUE
  IN  <<figure[n].linestyle, figure[n].marker>>

\* C10: the k-th plotted group (k from 0) is drawn with the line style and the
\* marker that round-robin gives it from the fixed repertoires, the same for
\* all its y columns and its right-axis series, and two distinct groups within
\* one cycle of the repertoire never get the same combination.
C10_RoundRobinStyles ==
  pc = "returned" =>
    /\ \A k \in 1..Len(all_dfs) : \A n \in SeriesOf(k) :
         /\ figure[n].linestyle = STYLES[((k - 1) % Len(STYLES)) + 1]
         /\ figure[n].marker = MARKERS[((k - 1) % Len(MARKERS)) + 1]
    /\ \A j, k \in 1..Len(all_dfs) :
         (j < k /\ k - j < 12) => Combination(j) # Combination(k)

\* C10 witness: thirteen groups were drawn; the fifth reuses the line style
\* of the first with another marker, and the thirteenth is the first to
\* repeat a combination.
C10_WrapWitness ==
  /\ pc = "returned"
  /\ Len(all_dfs) >= 13
  /\ Combination(5)[1] = Combination(1)[1]
  /\ Combination(5) # Combination(1)
  /\ Combination(13) = Combination(1)

=============================================================================
